---- MODULE Spec2Model ----
(***************************************************************************)
(* A model of the Bitrix24 bot views (src/bot/views.py): the webhook       *)
(* handler with its payload parsing, field extraction, link / deal         *)
(* scanning and reply delivery, and the install / register endpoints.      *)
(*                                                                         *)
(* Text is modelled as a sequence of one-character strings, so that the    *)
(* conversions of the code (form decoding, percent decoding, JSON          *)
(* parsing, the regular expressions, slicing) are computed character by    *)
(* character.  A Python value is a record [t, s, kv]:                      *)
(*    t  the type tag: "str" "num" "map" "list" "null" "true" "false"      *)
(*    s  the characters of a string, or the digits of a number             *)
(*    kv the items of a mapping as <<key, value>> pairs in insertion       *)
(*       order, or the elements of a list as <<<<>>, value>> pairs         *)
(***************************************************************************)
EXTENDS Integers, Sequences, FiniteSets, TLC

VARIABLES
    pc,         \* "idle", "received" (a request is routed to its view),
                \* "responded" (the view has returned)
    endpoint,   \* the view the request in hand is routed to
    request,    \* the request in hand: [method, body, query]
    upstream,   \* what the outbound HTTP call of that request would answer
    locals,     \* the local variables of webhook_handler when it returned
    calls,      \* the outbound HTTP calls made while handling the request
    response    \* the response returned to the caller: [status, body, text]

vars == <<pc, endpoint, request, upstream, locals, calls, response>>

----------------------------------------------------------------------------
(* Characters *)

SP == " "
NL == "\n"
TAB == "\t"
CR == "\r"
BADBYTE == "<0xFF>"        \* a byte that is not valid UTF-8
QUOTE == "\""
BACKSLASH == "\\"

Digits == {"0", "1", "2", "3", "4", "5", "6", "7", "8", "9"}

Range(f) == {f[i] : i \in DOMAIN f}

RECURSIVE Cat(_)
\* the concatenation of a sequence of sequences (halving, to keep the
\* evaluation shallow)
Cat(ss) ==
    IF ss = <<>> THEN <<>>
    ELSE IF Len(ss) = 1 THEN ss[1]
    ELSE Cat(SubSeq(ss, 1, Len(ss) \div 2)) \o Cat(SubSeq(ss, Len(ss) \div 2 + 1, Len(ss)))

\* the first position j >= i of text whose character is in `stop`,
\* Len(text) + 1 when there is none
FirstIn(text, i, stop) ==
    IF \E j \in i..Len(text) : text[j] \in stop
    THEN CHOOSE j \in i..Len(text) :
            text[j] \in stop /\ \A k \in i..(j - 1) : text[k] \notin stop
    ELSE IF i > Len(text) THEN i ELSE Len(text) + 1

\* the end (exclusive) of the run of characters of `keep` that starts at i
RunEnd(text, i, keep) ==
    IF \E j \in i..Len(text) : text[j] \notin keep
    THEN CHOOSE j \in i..Len(text) :
            text[j] \notin keep /\ \A k \in i..(j - 1) : text[k] \in keep
    ELSE IF i > Len(text) THEN i ELSE Len(text) + 1

StartsWithAt(text, i, pat) ==
    /\ i + Len(pat) - 1 <= Len(text)
    /\ \A k \in 1..Len(pat) : text[i + k - 1] = pat[k]

----------------------------------------------------------------------------
(* Python values *)

JStr(s) == [t |-> "str", s |-> s, kv |-> <<>>]
JNum(d) == [t |-> "num", s |-> d, kv |-> <<>>]
JMap(kv) == [t |-> "map", s |-> <<>>, kv |-> kv]
JList(vs) == [t |-> "list", s |-> <<>>, kv |-> [i \in 1..Len(vs) |-> <<<<>>, vs[i]>>]]
JNone == [t |-> "null", s |-> <<>>, kv |-> <<>>]
JTrue == [t |-> "true", s |-> <<>>, kv |-> <<>>]
JFalse == [t |-> "false", s |-> <<>>, kv |-> <<>>]
EmptyStr == JStr(<<>>)
EmptyMap == JMap(<<>>)
EmptyList == JList(<<>>)

IsDict(v) == v.t = "map"
IsList(v) == v.t = "list"
IsStr(v) == v.t = "str"

\* bool(v): the truth value Python gives a value in `if v:` / `not v`
Truthy(v) ==
    CASE v.t = "str" -> v.s # <<>>
      [] v.t = "num" -> \E i \in 1..Len(v.s) : v.s[i] # "0"
      [] v.t = "map" -> v.kv # <<>>
      [] v.t = "list" -> v.kv # <<>>
      [] v.t = "true" -> TRUE
      [] OTHER -> FALSE

\* key in d
HasKey(d, k) == \E i \in 1..Len(d.kv) : d.kv[i][1] = k

\* d[key]
Item(d, k) == d.kv[CHOOSE i \in 1..Len(d.kv) : d.kv[i][1] = k][2]

\* d.get(key, default)
Get(d, k, default) == IF HasKey(d, k) THEN Item(d, k) ELSE default

\* d[key] = value on a dict under construction: a repeated key keeps its
\* place and takes the last value
DictSet(kv, k, v) ==
    IF \E i \in 1..Len(kv) : kv[i][1] = k
    THEN [i \in 1..Len(kv) |-> IF kv[i][1] = k THEN <<k, v>> ELSE kv[i]]
    ELSE Append(kv, <<k, v>>)

----------------------------------------------------------------------------
(* json.loads, on the characters of the text *)

JsonWs == {SP, NL, TAB, CR}

SkipWs(b, i) == RunEnd(b, i, JsonWs)

JFail == [ok |-> FALSE, v |-> JNone, next |-> 0]
JOk(v, next) == [ok |-> TRUE, v |-> v, next |-> next]

\* the character a backslash escape stands for (<<>> when it is not one)
Unescape(c) ==
    CASE c = "n" -> <<NL>>
      [] c = "t" -> <<TAB>>
      [] c = "r" -> <<CR>>
      [] c = QUOTE -> <<QUOTE>>
      [] c = BACKSLASH -> <<BACKSLASH>>
      [] c = "/" -> <<"/">>
      [] OTHER -> <<>>

\* the number of backslashes in a row just before position k, counted
\* back no further than position i
BackslashesBefore(b, i, k) ==
    IF k - 1 < i \/ b[k - 1] # BACKSLASH THEN 0
    ELSE LET m == IF \E j \in i..(k - 1) : b[j] # BACKSLASH
                  THEN CHOOSE j \in i..(k - 1) :
                          b[j] # BACKSLASH /\ \A n \in (j + 1)..(k - 1) : b[n] = BACKSLASH
                  ELSE i - 1 IN
         k - 1 - m

\* the string literal that opens just before position i and closes at e
StringBetween(b, i, e) ==
    LET escaped(k) == BackslashesBefore(b, i, k) % 2 = 1 IN
    IF \E k \in i..(e - 1) :
          \/ b[k] \in {NL, TAB, CR}                     \* control character
          \/ escaped(k) /\ Unescape(b[k]) = <<>>        \* no such escape
    THEN JFail
    ELSE IF \A k \in i..(e - 1) : b[k] # BACKSLASH
    THEN JOk(JStr(SubSeq(b, i, e - 1)), e + 1)
    ELSE JOk(JStr(Cat([n \in 1..(e - i) |->
                          IF escaped(i + n - 1) THEN Unescape(b[i + n - 1])
                          ELSE IF b[i + n - 1] = BACKSLASH THEN <<>>
                          ELSE <<b[i + n - 1]>>])),
             e + 1)

\* the string literal whose opening quote is just before position i: it ends
\* at the first quote that no backslash escapes
ScanString(b, i) ==
    LET closes(j) == b[j] = QUOTE /\ BackslashesBefore(b, i, j) % 2 = 0 IN
    IF ~\E j \in i..Len(b) : closes(j) THEN JFail
    ELSE StringBetween(b, i, CHOOSE j \in i..Len(b) :
                                closes(j) /\ \A k \in i..(j - 1) : ~closes(k))

\* the end (exclusive) of the run of digits that starts at i
DigitRun(b, i) == RunEnd(b, i, Digits)

NumberTo(b, i, e) == JOk(JNum(SubSeq(b, i, e - 1)), e)

ScanNumber(b, i) ==
    IF b[i] = "0" THEN JOk(JNum(<<"0">>), i + 1) ELSE NumberTo(b, i, DigitRun(b, i))

RECURSIVE ParseValue(_, _), ParseMembers(_, _, _), ParseElements(_, _, _)
RECURSIVE ObjectAt(_, _), ArrayAt(_, _), AfterKey(_, _, _), AfterColon(_, _, _, _)
RECURSIVE AfterMember(_, _, _, _), AfterValue(_, _, _), AfterElement(_, _, _)

\* the JSON value that starts at position i (no leading whitespace)
ParseValue(b, i) ==
    IF i > Len(b) THEN JFail
    ELSE IF b[i] = QUOTE THEN ScanString(b, i + 1)
    ELSE IF b[i] \in Digits THEN ScanNumber(b, i)
    ELSE IF b[i] = "{" THEN ObjectAt(b, SkipWs(b, i + 1))
    ELSE IF b[i] = "[" THEN ArrayAt(b, SkipWs(b, i + 1))
    ELSE IF StartsWithAt(b, i, <<"n", "u", "l", "l">>) THEN JOk(JNone, i + 4)
    ELSE IF StartsWithAt(b, i, <<"t", "r", "u", "e">>) THEN JOk(JTrue, i + 4)
    ELSE IF StartsWithAt(b, i, <<"f", "a", "l", "s", "e">>) THEN JOk(JFalse, i + 5)
    ELSE JFail

\* an object whose '{' and the whitespace after it end just before j
ObjectAt(b, j) ==
    IF j <= Len(b) /\ b[j] = "}" THEN JOk(EmptyMap, j + 1) ELSE ParseMembers(b, j, <<>>)

\* an array whose '[' and the whitespace after it end just before j
ArrayAt(b, j) ==
    IF j <= Len(b) /\ b[j] = "]" THEN JOk(EmptyList, j + 1) ELSE ParseElements(b, j, <<>>)

\* the members of an object from position i, which must hold a key
ParseMembers(b, i, kv) ==
    IF i > Len(b) \/ b[i] # QUOTE THEN JFail ELSE AfterKey(b, kv, ScanString(b, i + 1))

\* ... the key is scanned: whitespace, then ':' is due
AfterKey(b, kv, key) ==
    IF ~key.ok THEN JFail ELSE AfterColon(b, kv, key.v.s, SkipWs(b, key.next))

\* ... c is where the ':' is due: whitespace, then the value
AfterColon(b, kv, k, c) ==
    IF c > Len(b) \/ b[c] # ":" THEN JFail
    ELSE AfterMember(b, kv, k, ParseValue(b, SkipWs(b, c + 1)))

\* ... the value is parsed: the member is set, whitespace is skipped
AfterMember(b, kv, k, val) ==
    IF ~val.ok THEN JFail
    ELSE AfterValue(b, DictSet(kv, k, val.v), SkipWs(b, val.next))

\* ... e is where '}' or ',' is due
AfterValue(b, kv, e) ==
    IF e > Len(b) THEN JFail
    ELSE IF b[e] = "}" THEN JOk(JMap(kv), e + 1)
    ELSE IF b[e] = "," THEN ParseMembers(b, SkipWs(b, e + 1), kv)
    ELSE JFail

\* the elements of an array from position i, which must hold a value
ParseElements(b, i, vs) == AfterElement(b, vs, ParseValue(b, i))

\* ... the element is parsed: ']' or ',' is due after whitespace
AfterElement(b, vs, val) ==
    IF ~val.ok THEN JFail
    ELSE IF SkipWs(b, val.next) > Len(b) THEN JFail
    ELSE IF b[SkipWs(b, val.next)] = "]"
    THEN JOk(JList(Append(vs, val.v)), SkipWs(b, val.next) + 1)
    ELSE IF b[SkipWs(b, val.next)] = ","
    THEN ParseElements(b, SkipWs(b, SkipWs(b, val.next) + 1), Append(vs, val.v))
    ELSE JFail

\* the value parsed must be followed by whitespace only
WholeText(text, r) ==
    IF r.ok /\ SkipWs(text, r.next) > Len(text)
    THEN [ok |-> TRUE, v |-> r.v]
    ELSE [ok |-> FALSE, v |-> JNone]

\* json.loads(text): [ok, v]; ok = FALSE stands for json.JSONDecodeError
JsonLoads(text) == WholeText(text, ParseValue(text, SkipWs(text, 1)))

----------------------------------------------------------------------------
(* urllib.parse.parse_qs, on the characters of the body *)

\* the %XX escapes the model decodes, each with the character it stands for
PctTable ==
    << <<"7", "B", "{">>, <<"7", "D", "}">>, <<"2", "2", QUOTE>>,
       <<"3", "A", ":">>, <<"2", "C", ",">>, <<"5", "B", "[">>,
       <<"5", "D", "]">>, <<"2", "0", SP>>, <<"2", "F", "/">>,
       <<"7", "C", "|">>, <<"2", "6", "&">>, <<"3", "D", "=">>,
       <<"2", "5", "%">>, <<"2", "B", "+">>, <<"0", "A", NL>>,
       <<"5", "C", BACKSLASH>>, <<"6", "1", "a">> >>

PctCodeAt(s, i) ==
    {k \in 1..Len(PctTable) :
        /\ i + 2 <= Len(s)
        /\ s[i + 1] = PctTable[k][1]
        /\ s[i + 2] = PctTable[k][2]}

\* urllib.parse.unquote(s): every %XX becomes its character, a % that
\* starts no escape is kept
Unquote(s) ==
    LET starts(i) == i >= 1 /\ s[i] = "%" /\ PctCodeAt(s, i) # {} IN
    Cat([i \in 1..Len(s) |->
            IF starts(i) THEN <<PctTable[CHOOSE k \in PctCodeAt(s, i) : TRUE][3]>>
            ELSE IF starts(i - 1) \/ starts(i - 2) THEN <<>>
            ELSE <<s[i]>>])

\* s.replace('+', ' ')
PlusToSpace(s) == [i \in 1..Len(s) |-> IF s[i] = "+" THEN SP ELSE s[i]]

\* the index of the first c in s at or after i, Len(s) + 1 when there is none
IndexFrom(s, c, i) == IF i > Len(s) THEN Len(s) + 1 ELSE FirstIn(s, i, {c})

RECURSIVE Split(_, _, _), SplitAt(_, _, _, _)
\* s.split(c) from position i
Split(s, c, i) == SplitAt(s, c, i, IndexFrom(s, c, i))

SplitAt(s, c, i, j) ==
    IF j > Len(s) THEN <<SubSeq(s, i, Len(s))>>
    ELSE <<SubSeq(s, i, j - 1)>> \o Split(s, c, j + 1)

\* the (name, value) pair of a field whose first '=' is at j
QsPair(nv, j) ==
    IF nv = <<>> \/ j > Len(nv) \/ j = Len(nv) THEN <<>>
    ELSE << <<Unquote(PlusToSpace(SubSeq(nv, 1, j - 1))),
              Unquote(PlusToSpace(SubSeq(nv, j + 1, Len(nv))))>> >>

\* the (name, value) pair parse_qsl makes of one field, <<>> when the field
\* is dropped: no '=', or a blank value (keep_blank_values is off)
QsField(nv) == QsPair(nv, IndexFrom(nv, "=", 1))

QsFields(fields) == Cat([i \in 1..Len(fields) |-> QsField(fields[i])])

\* parse_qsl(body): the (name, value) pairs in order of appearance
ParseQsl(body) == IF body = <<>> THEN <<>> ELSE QsFields(Split(body, "&", 1))

K_data == <<"d", "a", "t", "a">>

\* the first value of `data` among the pairs: [none, s]
FirstData(pairs) ==
    IF \E i \in 1..Len(pairs) : pairs[i][1] = K_data
    THEN [none |-> FALSE,
          s |-> pairs[CHOOSE i \in 1..Len(pairs) :
                         /\ pairs[i][1] = K_data
                         /\ \A k \in 1..(i - 1) : pairs[k][1] # K_data][2]]
    ELSE [none |-> TRUE, s |-> <<>>]

\* parse_qs(body).get('data', [None])[0]
DataStr(body) == FirstData(ParseQsl(body))

----------------------------------------------------------------------------
(* The regular expressions of webhook_handler *)

\* \s for a str pattern
Whitespace == {SP, NL, TAB, CR}

P_http == <<"h", "t", "t", "p", ":", "/", "/">>
P_https == <<"h", "t", "t", "p", "s", ":", "/", "/">>

\* a pattern without the optional s: http://
SchemeAtHttpOnly(text, i) ==
    IF StartsWithAt(text, i, P_http) THEN Len(P_http) ELSE 0

\* the length of the match of https?:// at position i, 0 when there is none
SchemeAt(text, i) ==
    IF StartsWithAt(text, i, P_https) THEN Len(P_https)
    ELSE IF StartsWithAt(text, i, P_http) THEN Len(P_http)
    ELSE 0

\* the end (exclusive) of the run of [^\s] that starts at i
NonWsRun(text, i) == FirstIn(text, i, Whitespace)

RECURSIVE FindLinks(_, _), LinkAt(_, _)
\* re.findall(r'https?://[^\s]+', text), scanning from position i: the
\* scan moves to the next place the scheme matches
FindLinks(text, i) ==
    IF \E j \in i..Len(text) : SchemeAt(text, j) > 0
    THEN LinkAt(text,
                CHOOSE j \in i..Len(text) :
                    SchemeAt(text, j) > 0 /\ \A k \in i..(j - 1) : SchemeAt(text, k) = 0)
    ELSE <<>>

\* the scheme matches at j: with a non-empty run of [^\s] after it there is
\* a match, and the scan goes on after the match; otherwise the scan goes
\* on one character further
LinkAt(text, j) ==
    IF NonWsRun(text, j + SchemeAt(text, j)) > j + SchemeAt(text, j)
    THEN <<SubSeq(text, j, NonWsRun(text, j + SchemeAt(text, j)) - 1)>>
         \o FindLinks(text, NonWsRun(text, j + SchemeAt(text, j)))
    ELSE FindLinks(text, j + 1)

P_deal == <<"D", "E", "A", "L", "|">>

\* DEAL\|(\d+) matches at position i
DealAt(text, i) ==
    /\ StartsWithAt(text, i, P_deal)
    /\ DigitRun(text, i + Len(P_deal)) > i + Len(P_deal)

\* group(1) of the match at position i
DealGroup(text, i) ==
    JStr(SubSeq(text, i + Len(P_deal), DigitRun(text, i + Len(P_deal)) - 1))

\* re.search(r'DEAL\|(\d+)', text): group(1) as a str, None when no match
DealSearch(text) ==
    IF \E i \in 1..Len(text) : DealAt(text, i)
    THEN DealGroup(text, CHOOSE i \in 1..Len(text) :
                            DealAt(text, i) /\ \A k \in 1..(i - 1) : ~DealAt(text, k))
    ELSE JNone

----------------------------------------------------------------------------
(* The keys and the literal texts of the views *)

K_PARAMS ==
    <<"P", "A", "R", "A", "M", "S">>

K_MESSAGE ==
    <<"M", "E", "S", "S", "A", "G", "E">>

K_DIALOG_ID ==
    <<"D", "I", "A", "L", "O", "G", "_", "I", "D">>

K_FROM_USER_ID ==
    <<"F", "R", "O", "M", "_", "U", "S", "E", "R", "_", "I", "D">>

K_CHAT_ENTITY_DATA_1 ==
    <<"C", "H", "A", "T", "_", "E", "N", "T", "I", "T", "Y", "_", "D", "A",
      "T", "A", "_", "1">>

K_BOT ==
    <<"B", "O", "T">>

K_access_token ==
    <<"a", "c", "c", "e", "s", "s", "_", "t", "o", "k", "e", "n">>

K_auth ==
    <<"a", "u", "t", "h">>

\* views.py:170
T_Received ==
    <<"<U+2705>", SP, "M", "e", "s", "s", "a", "g", "e", SP, "r", "e", "c",
      "e", "i", "v", "e", "d", "!", NL>>

\* views.py:171
T_Original ==
    <<"O", "r", "i", "g", "i", "n", "a", "l", SP, "m", "e", "s", "s", "a",
      "g", "e", ":", SP>>

\* views.py:174, before len(links)
T_FoundHead ==
    <<NL, NL, "<U+1F517>", SP, "F", "o", "u", "n", "d", SP>>

\* views.py:174, after len(links)
T_FoundTail ==
    <<SP, "l", "i", "n", "k", "(", "s", ")", ":", NL>>

\* views.py:176
T_Bullet ==
    <<"<U+2022>", SP>>

\* views.py:179
T_Deal ==
    <<NL, "<U+1F4BC>", SP, "D", "e", "a", "l", SP, "I", "D", ":", SP>>

----------------------------------------------------------------------------
(* Responses and outbound calls *)

\* a local variable that was never assigned
Unbound == [t |-> "unbound", s |-> <<>>, kv |-> <<>>]

\* JsonResponse({"result": "ok"})
OkResponse == [status |-> 200, body |-> "result_ok"]

\* JsonResponse({"error": "AUTH_ID missing"}, status=400)
AuthMissingResponse == [status |-> 400, body |-> "error_auth_id_missing"]

\* what the upstream platform does with an outbound call: it answers with a
\* status, or requests raises a RequestException (Timeout, ConnectionError),
\* or the call raises something else
UpStatus(n) == [kind |-> "status", status |-> n]
UpTimeout == [kind |-> "timeout", status |-> 0]
UpConnectionError == [kind |-> "connection_error", status |-> 0]
UpOtherException == [kind |-> "other_exception", status |-> 0]
RequestExceptionKinds == {"timeout", "connection_error"}

\* requests.post(url, data=...): the call as the platform sees it
OutboundCall(api, auth, dialog, text) ==
    [api |-> api, auth |-> auth, dialog |-> dialog, text |-> text]

----------------------------------------------------------------------------
(* send_message_to_dialog *)

MsgSliceLen == 100

\* a slice that keeps the whole string
SliceWhole(s, n) == s

\* s[:n]
Slice(s, n) == SubSeq(s, 1, IF Len(s) < n THEN Len(s) ELSE n)

RECURSIVE ToDigits(_)
\* str(n) for n >= 0
ToDigits(n) ==
    LET d == <<"0", "1", "2", "3", "4", "5", "6", "7", "8", "9">>[(n % 10) + 1] IN
    IF n < 10 THEN <<d>> ELSE Append(ToDigits(n \div 10), d)

\* the "• {link}\n" lines
BulletLines(links) == Cat([i \in 1..Len(links) |-> T_Bullet \o links[i] \o <<NL>>])

\* response_message as send_message_to_dialog builds it
ResponseMessage(user_message, links, deal_id) ==
    T_Received
    \o T_Original \o Slice(user_message, MsgSliceLen)
    \o (IF links # <<>>
        THEN T_FoundHead \o ToDigits(Len(links)) \o T_FoundTail \o BulletLines(links)
        ELSE <<>>)
    \o (IF Truthy(deal_id) THEN T_Deal \o deal_id.s ELSE <<>>)

\* x[:10] raises TypeError unless x is a sequence
Sliceable(v) == v.t \in {"str", "list"}

\* a send_message_to_dialog that posts again after a failed delivery
SendMessageToDialogRetry(dialog_id, access_token, user_message, links, deal_id, up) ==
    IF ~Sliceable(access_token) THEN [calls |-> <<>>, raised |-> TRUE]
    ELSE [calls |->
            IF up.kind = "status" /\ up.status = 200
            THEN <<OutboundCall("imbot.message.add", access_token, dialog_id,
                                ResponseMessage(user_message, links, deal_id))>>
            ELSE <<OutboundCall("imbot.message.add", access_token, dialog_id,
                                ResponseMessage(user_message, links, deal_id)),
                   OutboundCall("imbot.message.add", access_token, dialog_id,
                                ResponseMessage(user_message, links, deal_id))>>,
          raised |-> up.kind = "other_exception"]

\* send_message_to_dialog(...): the calls it makes and whether an exception
\* leaves it.  A RequestException and a non-200 answer are logged and
\* swallowed; there is no second requests.post.
SendMessageToDialog(dialog_id, access_token, user_message, links, deal_id, up) ==
    IF ~Sliceable(access_token) THEN [calls |-> <<>>, raised |-> TRUE]
    ELSE [calls |-> <<OutboundCall("imbot.message.add", access_token, dialog_id,
                                   ResponseMessage(user_message, links, deal_id))>>,
          raised |-> up.kind = "other_exception"]

----------------------------------------------------------------------------
(* webhook_handler *)

NoLocals ==
    [exit |-> "none", data |-> Unbound, message |-> Unbound, dialog_id |-> Unbound,
     user_id |-> Unbound, entity_data1 |-> Unbound, found_links |-> <<>>,
     deal_id |-> Unbound, access_token |-> Unbound]

\* the response of the `except Exception` clause
ExceptResponse500 == [status |-> 500, body |-> "error_message"]
ExceptResponse == OkResponse

\* return JsonResponse({"result": "ok"}) at the given line
Returned(l, line, calls_) ==
    [locals |-> [l EXCEPT !.exit = line], calls |-> calls_, response |-> OkResponse]

\* an exception raised inside the try block: lines 153-155
Raised(l, calls_) ==
    [locals |-> [l EXCEPT !.exit = "except"], calls |-> calls_,
     response |-> ExceptResponse]

\* a parse that only ever reads the body as JSON
PayloadFromRawOnly(body, ds) ==
    IF JsonLoads(body).ok
    THEN [returned |-> FALSE, data |-> JsonLoads(body).v]
    ELSE [returned |-> TRUE, data |-> Unbound]

\* lines 77-91, with data_str as parse_qs gave it: [returned, data];
\* returned = TRUE is the early return of line 84
PayloadFrom(body, ds) ==
    IF ds.none \/ ds.s = <<>>
    THEN (IF JsonLoads(body).ok
          THEN [returned |-> FALSE, data |-> JsonLoads(body).v]
          ELSE [returned |-> TRUE, data |-> Unbound])
    ELSE [returned |-> FALSE,
          data |-> IF JsonLoads(ds.s).ok THEN JsonLoads(ds.s).v ELSE EmptyMap]

\* lines 72-91: the payload of the decoded body
PayloadOf(body) == PayloadFrom(body, DataStr(body))

\* lines 120-124 on a list: the access_token of the first element that is a
\* dict holding one
FirstToken(bots) ==
    IF \E i \in 1..Len(bots) :
          IsDict(bots[i][2]) /\ HasKey(bots[i][2], K_access_token)
    THEN Item(bots[CHOOSE i \in 1..Len(bots) :
                      /\ IsDict(bots[i][2]) /\ HasKey(bots[i][2], K_access_token)
                      /\ \A k \in 1..(i - 1) :
                            ~(IsDict(bots[k][2]) /\ HasKey(bots[k][2], K_access_token))][2],
              K_access_token)
    ELSE EmptyStr

\* lines 119-124 for the value of data.get('BOT', [])
TokenOfBot(bot_data) == IF IsList(bot_data) THEN FirstToken(bot_data.kv) ELSE EmptyStr

\* the access token of the BOT section: lines 118-124
ExtractAccessToken(data) == TokenOfBot(Get(data, K_BOT, EmptyList))

\* lines 146-151 (l holds the locals)
Respond(l, up) ==
    IF Truthy(l.access_token) /\ Truthy(l.dialog_id)
    THEN (IF SendMessageToDialog(l.dialog_id, l.access_token, l.message.s,
                                 l.found_links, l.deal_id, up).raised
          THEN Raised(l, SendMessageToDialog(l.dialog_id, l.access_token, l.message.s,
                                             l.found_links, l.deal_id, up).calls)
          ELSE Returned(l, "line151",
                        SendMessageToDialog(l.dialog_id, l.access_token, l.message.s,
                                            l.found_links, l.deal_id, up).calls))
    ELSE Returned(l, "line151", <<>>)

\* lines 118-132: the token is extracted and logged (access_token[:10])
TokenStep(l, up) ==
    IF Truthy(l.access_token) /\ ~Sliceable(l.access_token) THEN Raised(l, <<>>)
    ELSE Respond(l, up)

\* lines 110-115: the deal id
DealStep(l, up) ==
    IF Truthy(l.entity_data1) /\ ~IsStr(l.entity_data1)
    THEN Raised([l EXCEPT !.deal_id = JNone], <<>>)
    ELSE TokenStep([l EXCEPT !.deal_id = IF Truthy(l.entity_data1)
                                          THEN DealSearch(l.entity_data1.s)
                                          ELSE JNone,
                             !.access_token = ExtractAccessToken(l.data)], up)

\* lines 107-108: the links
LinkStep(l, up) ==
    IF ~IsStr(l.message) THEN Raised(l, <<>>)
    ELSE DealStep([l EXCEPT !.found_links = FindLinks(l.message.s, 1)], up)

\* lines 100-104: the parameters
ParamStep(l, params, up) ==
    IF ~IsDict(params) THEN Raised(l, <<>>)
    ELSE LinkStep([l EXCEPT !.message = Get(params, K_MESSAGE, EmptyStr),
                            !.dialog_id = Get(params, K_DIALOG_ID, EmptyStr),
                            !.user_id = Get(params, K_FROM_USER_ID, EmptyStr),
                            !.entity_data1 = Get(params, K_CHAT_ENTITY_DATA_1, EmptyStr)],
                  up)

\* a handler that unwraps a list root instead of returning at line 97
PayloadStepUnwrap(p, up) ==
    IF p.returned THEN Returned(NoLocals, "line84", <<>>)
    ELSE IF IsList(p.data) /\ p.data.kv # <<>> /\ IsDict(p.data.kv[1][2])
    THEN ParamStep([NoLocals EXCEPT !.data = p.data.kv[1][2]],
                   Get(p.data.kv[1][2], K_PARAMS, EmptyMap), up)
    ELSE IF ~IsDict(p.data) THEN Returned([NoLocals EXCEPT !.data = p.data], "line97", <<>>)
    ELSE ParamStep([NoLocals EXCEPT !.data = p.data],
                   Get(p.data, K_PARAMS, EmptyMap), up)

\* lines 77-100 for the payload p
PayloadStep(p, up) ==
    IF p.returned THEN Returned(NoLocals, "line84", <<>>)
    ELSE IF ~IsDict(p.data) THEN Returned([NoLocals EXCEPT !.data = p.data], "line97", <<>>)
    ELSE ParamStep([NoLocals EXCEPT !.data = p.data],
                   Get(p.data, K_PARAMS, EmptyMap), up)

\* webhook_handler(request) with the upstream behaving as `up`
WebhookHandlerRun(body, up) ==
    IF BADBYTE \in Range(body) THEN Raised(NoLocals, <<>>)   \* line 71
    ELSE PayloadStep(PayloadOf(body), up)

----------------------------------------------------------------------------
(* install_app and register_bot *)

Contains(text, pat) == \E i \in 1..Len(text) : StartsWithAt(text, i, pat)

\* `key in data` raises TypeError unless data is a container or a str
InRaises(data) == data.t \notin {"map", "list", "str"}

\* key in data
In(data, k) ==
    CASE data.t = "map" -> HasKey(data, k)
      [] data.t = "list" -> \E i \in 1..Len(data.kv) : data.kv[i][2] = JStr(k)
      [] data.t = "str" -> Contains(data.s, k)
      [] OTHER -> FALSE

\* lines 276-282: [raised, auth_id]
ExtractAuthId(data) ==
    IF InRaises(data) THEN [raised |-> TRUE, auth_id |-> JNone]
    ELSE IF In(data, K_auth) THEN
        \* data['auth'] and data.get('auth') need a dict
        (IF ~IsDict(data) THEN [raised |-> TRUE, auth_id |-> JNone]
         ELSE IF IsDict(Item(data, K_auth))
         THEN [raised |-> FALSE,
               auth_id |-> Get(Item(data, K_auth), K_access_token, JNone)]
         ELSE [raised |-> FALSE, auth_id |-> Item(data, K_auth)])
    ELSE IF In(data, K_access_token) THEN
        (IF ~IsDict(data) THEN [raised |-> TRUE, auth_id |-> JNone]
         ELSE [raised |-> FALSE, auth_id |-> Item(data, K_access_token)])
    ELSE [raised |-> FALSE, auth_id |-> JNone]

\* lines 331-333: JsonResponse({"error": str(e)}, status=500)
InstallExceptResponse == [status |-> 500, body |-> "error_message"]

\* lines 307-329: the answer of install_app to what the registration call did
InstallRelay(up) ==
    IF up.kind = "status" THEN
        IF up.status = 200 THEN [status |-> 200, body |-> "upstream_text"]
        ELSE [status |-> up.status, body |-> "error_bot_registration_failed"]
    ELSE IF up.kind \in RequestExceptionKinds
    THEN [status |-> 500, body |-> "error_bot_registration_failed_message"]
    ELSE InstallExceptResponse

\* lines 284-329 for the extracted auth_id
InstallWith(a, up) ==
    IF a.raised THEN [calls |-> <<>>, response |-> InstallExceptResponse]
    ELSE IF ~Truthy(a.auth_id) THEN [calls |-> <<>>, response |-> AuthMissingResponse]
    ELSE [calls |-> <<OutboundCall("imbot.register", a.auth_id, JNone, <<>>)>>,
          response |-> InstallRelay(up)]

\* lines 276-329 for the loaded data
InstallLoaded(loaded, up) ==
    IF ~loaded.ok THEN [calls |-> <<>>, response |-> InstallExceptResponse]
    ELSE InstallWith(ExtractAuthId(loaded.v), up)

\* install_app(request): req is [method, body, query]
InstallAppRun(req, up) ==
    IF req.method = "POST" /\ BADBYTE \in Range(req.body)
    THEN [calls |-> <<>>, response |-> InstallExceptResponse]
    ELSE InstallLoaded(IF req.method # "POST" THEN [ok |-> TRUE, v |-> req.query]
                       ELSE IF req.body = <<>> THEN [ok |-> TRUE, v |-> EmptyMap]
                       ELSE JsonLoads(req.body),
                       up)

\* lines 385-404: the answer of register_bot to what the registration call did
RegisterRelay(up) ==
    IF up.kind = "status" THEN [status |-> 200, body |-> "upstream_text"]
    ELSE [status |-> 500, body |-> "error_message"]

\* register_bot(request)
RegisterBotRun(up) ==
    [calls |-> <<OutboundCall("imbot.register.client", JNone, JNone, <<>>)>>,
     response |-> RegisterRelay(up)]

----------------------------------------------------------------------------
(* The platform's side: how a client writes a payload onto the wire *)

\* a character inside a JSON string literal
EscapeChar(c) ==
    CASE c = NL -> <<BACKSLASH, "n">>
      [] c = TAB -> <<BACKSLASH, "t">>
      [] c = CR -> <<BACKSLASH, "r">>
      [] c = QUOTE -> <<BACKSLASH, QUOTE>>
      [] c = BACKSLASH -> <<BACKSLASH, BACKSLASH>>
      [] OTHER -> <<c>>

StrLiteral(s) == <<QUOTE>> \o Cat([i \in 1..Len(s) |-> EscapeChar(s[i])]) \o <<QUOTE>>

RECURSIVE Dumps(_, _)
\* the JSON text of a value, with `sep` after every ':' and ','
Dumps(v, sep) ==
    CASE v.t = "str" -> StrLiteral(v.s)
      [] v.t = "num" -> v.s
      [] v.t = "null" -> <<"n", "u", "l", "l">>
      [] v.t = "true" -> <<"t", "r", "u", "e">>
      [] v.t = "false" -> <<"f", "a", "l", "s", "e">>
      [] v.t = "map" ->
            <<"{">>
            \o Cat([i \in 1..Len(v.kv) |->
                      (IF i > 1 THEN <<",">> \o sep ELSE <<>>)
                      \o StrLiteral(v.kv[i][1]) \o <<":">> \o sep
                      \o Dumps(v.kv[i][2], sep)])
            \o <<"}">>
      [] v.t = "list" ->
            <<"[">>
            \o Cat([i \in 1..Len(v.kv) |->
                      (IF i > 1 THEN <<",">> \o sep ELSE <<>>)
                      \o Dumps(v.kv[i][2], sep)])
            \o <<"]">>

\* quote_plus of one character: a space as '+' (or %20), a reserved
\* character as its %XX escape
QuoteChar(c, plus) ==
    IF c = SP /\ plus THEN <<"+">>
    ELSE IF c = "a" THEN <<c>>      \* unreserved: written as it is
    ELSE IF \E k \in 1..Len(PctTable) : PctTable[k][3] = c
    THEN LET k == CHOOSE k \in 1..Len(PctTable) : PctTable[k][3] = c IN
         <<"%", PctTable[k][1], PctTable[k][2]>>
    ELSE <<c>>

Quote(s, plus) == Cat([i \in 1..Len(s) |-> QuoteChar(s[i], plus)])

\* the body that is the raw JSON text of a payload
RawBody(payload) == Dumps(payload, <<>>)

\* the body that is form data with the payload's JSON text under `data`
FormBody(payload) == K_data \o <<"=">> \o Quote(Dumps(payload, <<>>), TRUE)

----------------------------------------------------------------------------
(* The requests the model sends *)

MaxChunks == 3      \* a message text is up to MaxChunks chunks long
MaxOver == 3        \* the long message is MaxOver characters over the slice

M_Hi ==
    <<"h", "i", SP, "h", "t", "t", "p", "s", ":", "/", "/", "x", ".", "i",
      "o">>

M_See ==
    <<"s", "e", "e", SP, "h", "t", "t", "p", "s", ":", "/", "/", "a", ".",
      "c", "o", "m", "/", "x", SP, "a", "n", "d", SP, "h", "t", "t", "p",
      ":", "/", "/", "b", ".", "c", "o", "m">>

M_NoLinks ==
    <<"n", "o", SP, "l", "i", "n", "k", "s", SP, "h", "e", "r", "e">>

L_b ==
    <<"h", "t", "t", "p", ":", "/", "/", "b">>

E_Deal55 ==
    <<"D", "E", "A", "L", "|", "5", "5">>

E_Lead9 ==
    <<"L", "E", "A", "D", "|", "9">>

E_DealNoDigits ==
    <<"D", "E", "A", "L", "|", "x", SP, "D", "E", "A", "L", "|", "4", "8",
      "2", "y">>

Tok ==
    <<"t", "o", "k", "1", "2", "3">>

Tok2 ==
    <<"z", "z">>

\* a message longer than the slice, with a link that starts inside the
\* slice and ends after it
M_Long ==
    [i \in 1..(MsgSliceLen + MaxOver) |->
        IF i <= MsgSliceLen - Len(P_http) + 1 THEN (IF i % 2 = 1 THEN "a" ELSE SP)
        ELSE IF i <= MsgSliceLen + 1 THEN P_http[i - (MsgSliceLen - Len(P_http) + 1)]
        ELSE "c"]

TextChunks == {P_http, P_https, L_b, <<"a">>, <<SP>>, <<NL>>}

RECURSIVE ChunkTexts(_)
\* the texts of up to n chunks
ChunkTexts(n) ==
    IF n = 0 THEN {<<>>}
    ELSE LET prev == ChunkTexts(n - 1) IN
         prev \cup {t \o c : t \in prev, c \in TextChunks}

Texts == ChunkTexts(MaxChunks) \cup {M_Hi, M_See, M_NoLinks, M_Long}

\* a mapping of the items whose value is given (Unbound: the key is absent)
MkMap(items) == JMap(SelectSeq(items, LAMBDA it : it[2].t # "unbound"))

EventPayload(message, dialog_id, user_id, entity, bot) ==
    MkMap(<< <<K_PARAMS, MkMap(<< <<K_MESSAGE, message>>,
                                  <<K_DIALOG_ID, dialog_id>>,
                                  <<K_FROM_USER_ID, user_id>>,
                                  <<K_CHAT_ENTITY_DATA_1, entity>> >>)>>,
             <<K_BOT, bot>> >>)

TokenMap(token) == JMap(<< <<K_access_token, token>> >>)

MessageOpts == {Unbound, JNum(<<"5">>), JStr(M_Hi)}
DialogOpts == {Unbound, EmptyStr, JStr(<<"7">>), JNum(<<"7">>)}
UserOpts == {Unbound, JStr(<<"1">>), JNum(<<"1">>)}
EntityOpts == {Unbound, JStr(E_Deal55), JNum(<<"3">>)}
MoreEntityOpts == {EmptyStr, JStr(E_Lead9), JStr(E_DealNoDigits), JNum(<<"0">>), JNone}
MoreMessageOpts == {EmptyStr, JNone, JList(<<JStr(M_Hi)>>), JStr(M_Long)}
BotOpts ==
    {Unbound, EmptyList, JList(<<EmptyMap>>),
     JList(<<TokenMap(JStr(Tok))>>),
     JList(<<EmptyMap, TokenMap(JStr(Tok))>>),
     JList(<<JStr(<<"x">>), TokenMap(JStr(Tok))>>),
     JList(<<TokenMap(EmptyStr), TokenMap(JStr(Tok))>>),
     JList(<<TokenMap(JNum(<<"5">>))>>),
     TokenMap(JStr(Tok2)), JStr(Tok)}

\* payloads that vary the fields of the event
FieldPayloads ==
    {EventPayload(m, dlg, JStr(<<"1">>), e, b) :
        m \in MessageOpts, dlg \in DialogOpts, e \in EntityOpts, b \in BotOpts}
    \cup {EventPayload(m, JStr(<<"7">>), u, e, JList(<<TokenMap(JStr(Tok))>>)) :
            m \in {JStr(M_Hi)} \cup MoreMessageOpts, u \in UserOpts,
            e \in EntityOpts \cup MoreEntityOpts}

\* payloads that vary the message text
TextPayloads ==
    {EventPayload(JStr(t), JStr(<<"7">>), JStr(<<"1">>), JStr(E_Deal55),
                  JList(<<TokenMap(JStr(Tok))>>)) : t \in Texts}

\* payloads whose PARAMS is absent or no mapping, and the empty mapping
OddPayloads ==
    {MkMap(<< <<K_PARAMS, p>>, <<K_BOT, JList(<<TokenMap(JStr(Tok))>>)>> >>) :
        p \in {Unbound, JStr(<<"x">>), JList(<<>>), JNone, JNum(<<"5">>), EmptyMap}}
    \cup {EmptyMap}

Payloads == FieldPayloads \cup TextPayloads \cup OddPayloads

\* the payload of the spec's round-trip scenario
P_Scenario ==
    EventPayload(JStr(M_Hi), JStr(<<"7">>), JStr(<<"1">>), JStr(E_Deal55),
                 JList(<<TokenMap(JStr(Tok))>>))

\* JSON texts whose root is no mapping
NonMappingTexts ==
    {Dumps(JStr(M_Hi), <<>>), <<"5">>, <<"n", "u", "l", "l">>,
     Dumps(JList(<<P_Scenario>>), <<>>), <<"[", "]">>}

\* texts that are no JSON
InvalidJsonTexts ==
    {<<"{">>, SubSeq(RawBody(P_Scenario), 1, Len(RawBody(P_Scenario)) - 1),
     RawBody(P_Scenario) \o <<"x">>, <<"{", QUOTE, "a", QUOTE, ":", "0", "1", "}">>,
     <<"h", "i">>}

\* bodies that are neither form data with a JSON mapping under `data` nor a
\* raw JSON mapping
JunkBodies ==
    {<<>>, <<BADBYTE>>, RawBody(P_Scenario) \o <<BADBYTE>>,
     FormBody(P_Scenario) \o <<BADBYTE>>,
     <<"x", "=", "1">>, K_data \o <<"=">>, K_data}
    \cup NonMappingTexts \cup InvalidJsonTexts
    \cup {K_data \o <<"=">> \o Quote(t, TRUE) : t \in NonMappingTexts \cup InvalidJsonTexts}

\* other ways to put a payload under `data`: %20 for a space, JSON written
\* with spaces, fields around `data`, a second `data` field
FormBodyVariants(payload) ==
    {K_data \o <<"=">> \o Quote(Dumps(payload, <<>>), FALSE),
     K_data \o <<"=">> \o Quote(Dumps(payload, <<SP>>), TRUE),
     <<"e", "=", "1", "&">> \o FormBody(payload) \o <<"&", "t", "s", "=", "2">>,
     <<"&", "x", "&">> \o K_data \o <<"=", "&">> \o FormBody(payload),
     FormBody(payload) \o <<"&">> \o FormBody(EmptyMap),
     <<"d", "%", "6", "1", "t", "a", "=">> \o Quote(Dumps(payload, <<>>), TRUE)}

\* other ways to write a payload as raw JSON: with spaces, padded
RawBodyVariants(payload) ==
    {Dumps(payload, <<SP>>), <<SP, NL>> \o Dumps(payload, <<NL>>) \o <<NL>>}

\* a raw JSON mapping that form decoding finds a `data` field in
RawWithDataField ==
    RawBody(EventPayload(JStr(<<"a", "&">> \o K_data \o <<"=", "1">>), JStr(<<"7">>),
                         Unbound, Unbound, JList(<<TokenMap(JStr(Tok))>>)))

VariantPayloads == {P_Scenario, EmptyMap}

WebhookUpstreams ==
    {UpStatus(200), UpStatus(500), UpTimeout, UpConnectionError, UpOtherException}

Arrival(view, method, body, query, up) ==
    [endpoint |-> view,
     request |-> [method |-> method, body |-> body, query |-> query],
     upstream |-> up]

FieldBodies ==
    {RawBody(p) : p \in FieldPayloads} \cup {FormBody(p) : p \in FieldPayloads}

TextBodies ==
    {RawBody(p) : p \in TextPayloads} \cup {FormBody(p) : p \in TextPayloads}

OtherBodies ==
    {RawBody(p) : p \in OddPayloads} \cup {FormBody(p) : p \in OddPayloads}
    \cup UNION {FormBodyVariants(p) \cup RawBodyVariants(p) : p \in VariantPayloads}
    \cup {RawBody(P_Scenario), FormBody(P_Scenario), RawWithDataField}
    \cup JunkBodies

WebhookArrivals ==
    {Arrival("webhook", "POST", b, EmptyMap, up) :
        b \in OtherBodies, up \in WebhookUpstreams}
    \cup {Arrival("webhook", "POST", b, EmptyMap, up) :
            b \in FieldBodies, up \in {UpStatus(200), UpTimeout}}
    \cup {Arrival("webhook", "POST", b, EmptyMap, UpStatus(200)) : b \in TextBodies}

AuthOpts ==
    {Unbound, EmptyStr, JStr(Tok), EmptyMap, TokenMap(EmptyStr), TokenMap(JStr(Tok)),
     TokenMap(JNone), JNum(<<"5">>), JNum(<<"0">>), JNone, JList(<<JStr(Tok)>>)}

TopTokenOpts == {Unbound, EmptyStr, JStr(Tok2)}

InstallPayload(auth, token) ==
    MkMap(<< <<K_auth, auth>>, <<K_access_token, token>> >>)

\* JSON bodies of POST /install whose root is a mapping
InstallPayloads == {InstallPayload(a, t) : a \in AuthOpts, t \in TopTokenOpts}

\* other POST bodies: empty, no JSON, not UTF-8, a root that is no mapping
InstallOddBodies ==
    {<<>>, <<"{">>, <<BADBYTE>>, <<"5">>, <<"n", "u", "l", "l">>, <<"[", "]">>,
     Dumps(JList(<<JStr(K_auth)>>), <<>>), Dumps(JList(<<JStr(K_access_token)>>), <<>>),
     Dumps(JStr(K_auth), <<>>), Dumps(JStr(K_access_token), <<>>),
     Dumps(JStr(Tok), <<>>)}

\* request.GET.dict(): a flat mapping of strings
InstallQueries ==
    {InstallPayload(a, t) : a \in {Unbound, EmptyStr, JStr(Tok)}, t \in TopTokenOpts}

RegisterUpstreams ==
    {UpStatus(200), UpStatus(204), UpStatus(400), UpStatus(401), UpStatus(500),
     UpTimeout, UpConnectionError, UpOtherException}

InstallArrivals ==
    {Arrival("install", "POST", RawBody(p), EmptyMap, up) :
        p \in InstallPayloads, up \in RegisterUpstreams}
    \cup {Arrival("install", "POST", b, EmptyMap, up) :
            b \in InstallOddBodies, up \in RegisterUpstreams}
    \cup {Arrival("install", "GET", <<>>, q, up) :
            q \in InstallQueries, up \in RegisterUpstreams}

RegisterArrivals ==
    {Arrival("register", m, <<>>, EmptyMap, up) :
        m \in {"POST", "GET"}, up \in RegisterUpstreams}

----------------------------------------------------------------------------
(* The state machine: the server holds no state between requests.  A      *)
(* worker takes one request, runs its view to the end, and then drops     *)
(* everything the request created; the variables hold the request in      *)
(* hand and what its view did.                                            *)

NoResponse == [status |-> 0, body |-> "none"]
NoRequest == [method |-> "none", body |-> <<>>, query |-> EmptyMap]

Init ==
    /\ pc = "idle"
    /\ endpoint = "none"
    /\ request = NoRequest
    /\ upstream = UpStatus(200)
    /\ locals = NoLocals
    /\ calls = <<>>
    /\ response = NoResponse

\* a request arrives and urls.py routes it to its view; `upstream` is how
\* the platform will answer an outbound call made for this request
Receive ==
    /\ pc = "idle"
    /\ \E a \in WebhookArrivals \cup InstallArrivals \cup RegisterArrivals :
        /\ endpoint' = a.endpoint
        /\ request' = a.request
        /\ upstream' = a.upstream
    /\ pc' = "received"
    /\ UNCHANGED <<locals, calls, response>>

\* webhook_handler runs to its return
WebhookHandler ==
    /\ pc = "received" /\ endpoint = "webhook"
    /\ \E r \in {WebhookHandlerRun(request.body, upstream)} :
        /\ locals' = r.locals
        /\ calls' = r.calls
        /\ response' = r.response
    /\ pc' = "responded"
    /\ UNCHANGED <<endpoint, request, upstream>>

\* install_app runs to its return
InstallApp ==
    /\ pc = "received" /\ endpoint = "install"
    /\ \E r \in {InstallAppRun(request, upstream)} :
        /\ calls' = r.calls
        /\ response' = r.response
    /\ pc' = "responded"
    /\ UNCHANGED <<endpoint, request, upstream, locals>>

\* register_bot runs to its return
RegisterBot ==
    /\ pc = "received" /\ endpoint = "register"
    /\ \E r \in {RegisterBotRun(upstream)} :
        /\ calls' = r.calls
        /\ response' = r.response
    /\ pc' = "responded"
    /\ UNCHANGED <<endpoint, request, upstream, locals>>

\* the response has gone out: nothing of the request is kept
Discard ==
    /\ pc = "responded"
    /\ pc' = "idle"
    /\ endpoint' = "none"
    /\ request' = NoRequest
    /\ upstream' = UpStatus(200)
    /\ locals' = NoLocals
    /\ calls' = <<>>
    /\ response' = NoResponse

Next == Receive \/ WebhookHandler \/ InstallApp \/ RegisterBot \/ Discard

Spec == Init /\ [][Next]_vars

----------------------------------------------------------------------------
(* Properties *)

WebhookDone == pc = "responded" /\ endpoint = "webhook"
InstallDone == pc = "responded" /\ endpoint = "install"
RegisterDone == pc = "responded" /\ endpoint = "register"

\* C1: every POST handled by webhook_handler ends with HTTP 200 and the body
\* {"result": "ok"}, whatever the body bytes are and whatever the outbound
\* delivery does (200, non-200, timeout, connection error, another
\* exception).
C1_AlwaysAcknowledged == WebhookDone => response = OkResponse

\* the delivery call itself raised something requests does not wrap, and the
\* webhook was still acknowledged
C1_Witness ==
    /\ WebhookDone
    /\ upstream.kind = "other_exception"
    /\ calls # <<>>
    /\ locals.exit = "except"
    /\ response = OkResponse

\* C2: one webhook event makes no delivery attempt when the extracted
\* dialog_id or access_token is empty, and at most one otherwise (a failed
\* delivery is not retried); the attempt carries the event's own dialog_id
\* and access_token.
C2_AtMostOneDelivery ==
    WebhookDone =>
        /\ Len(calls) <= 1
        /\ (~Truthy(locals.dialog_id) \/ ~Truthy(locals.access_token)) => calls = <<>>
        /\ \A i \in 1..Len(calls) :
              /\ calls[i].api = "imbot.message.add"
              /\ calls[i].dialog = locals.dialog_id
              /\ calls[i].auth = locals.access_token

\* a delivery that timed out, attempted once
C2_Witness ==
    /\ WebhookDone
    /\ upstream.kind = "timeout"
    /\ Len(calls) = 1
    /\ calls[1].dialog = JStr(<<"7">>)
    /\ calls[1].auth = JStr(Tok)

\* <<body, payload>>: the bodies that are form data whose first `data` value
\* is the JSON text of the payload
FormCarriers ==
    {<<FormBody(p), p>> : p \in Payloads}
    \cup UNION {{<<b, p>> : b \in FormBodyVariants(p)} : p \in VariantPayloads}

\* <<body, payload>>: the bodies that are the payload as raw JSON and in
\* which form decoding finds no `data` field
RawCarriers ==
    {c \in {<<RawBody(p), p>> : p \in Payloads}
           \cup UNION {{<<b, p>> : b \in RawBodyVariants(p)} : p \in VariantPayloads}
           \cup {<<RawWithDataField, JsonLoads(RawWithDataField).v>>} :
        DataStr(c[1]).none}

\* C3: when the body is form data whose first `data` value is the text of a
\* JSON mapping, or a raw JSON mapping in which form decoding finds no
\* `data` field, the payload webhook_handler extracts from is that mapping.
C3_PayloadIsTheMapping ==
    WebhookDone =>
        \A c \in FormCarriers \cup RawCarriers :
            request.body = c[1] => locals.data = c[2]

\* the scenario payload, sent as form data with %XX and '+' escapes
C3_Witness ==
    /\ WebhookDone
    /\ request.body = FormBody(P_Scenario)
    /\ request.body # RawBody(P_Scenario)
    /\ locals.data = P_Scenario

\* a field of the event that holds nothing but its default
AtDefault(v) == v \in {Unbound, EmptyStr, JNone}

\* C4: a body that is neither form data with a JSON mapping under `data` nor
\* a raw JSON mapping (empty, not UTF-8, no JSON, a `data` value that is no
\* JSON, a JSON root that is a string, a number or an array) is handled as
\* the empty mapping: every event field is at its default, no delivery is
\* attempted, and the acknowledgement is returned.
C4_JunkIsEmptyPayload ==
    (WebhookDone /\ request.body \in JunkBodies) =>
        /\ AtDefault(locals.message) /\ AtDefault(locals.dialog_id)
        /\ AtDefault(locals.user_id) /\ AtDefault(locals.entity_data1)
        /\ AtDefault(locals.access_token) /\ AtDefault(locals.deal_id)
        /\ locals.found_links = <<>>
        /\ calls = <<>>
        /\ response = OkResponse

\* an array that wraps a complete payload, under `data`
C4_Witness ==
    /\ WebhookDone
    /\ request.body = K_data \o <<"=">> \o Quote(Dumps(JList(<<P_Scenario>>), <<>>), TRUE)
    /\ locals.exit = "line97"
    /\ calls = <<>>

\* C5 (as claimed): when BOT is a single mapping whose access_token is a
\* non-empty string t, the extracted access_token is t, as it is for a
\* one-element sequence holding that mapping, and with a non-empty DIALOG_ID
\* the delivery is attempted with token t.  Stated for events whose handling
\* ran to the end of the try block.
C5_SingleMappingToken ==
    (/\ WebhookDone
     /\ locals.exit = "line151"
     /\ IsDict(Get(locals.data, K_BOT, EmptyList))
     /\ IsStr(Get(Get(locals.data, K_BOT, EmptyList), K_access_token, JNone))
     /\ Truthy(Get(Get(locals.data, K_BOT, EmptyList), K_access_token, JNone)))
    => /\ locals.access_token = Item(Get(locals.data, K_BOT, EmptyList), K_access_token)
       /\ (IsStr(locals.dialog_id) /\ Truthy(locals.dialog_id)) =>
             /\ Len(calls) = 1
             /\ calls[1].auth = Item(Get(locals.data, K_BOT, EmptyList), K_access_token)

\* the value of a field that is read as the empty string unless it is a string
StrOrEmpty(v) == IF IsStr(v) THEN v ELSE EmptyStr

\* PARAMS read as {} unless it is a mapping
ParamsOrEmpty(data) ==
    IF IsDict(Get(data, K_PARAMS, EmptyMap)) THEN Get(data, K_PARAMS, EmptyMap)
    ELSE EmptyMap

\* C6 (as claimed): for every mapping payload extraction does not raise; a
\* PARAMS that is absent or no mapping is read as {}; each of MESSAGE,
\* DIALOG_ID, FROM_USER_ID, CHAT_ENTITY_DATA_1 that is absent or no string
\* is the empty string, whatever the other fields are; and with a non-empty
\* string DIALOG_ID and a non-empty access_token a delivery is attempted
\* with that dialog_id and token.
C6_TotalExtraction ==
    (WebhookDone /\ IsDict(locals.data)) =>
        /\ locals.exit = "line151"
        /\ locals.message =
              StrOrEmpty(Get(ParamsOrEmpty(locals.data), K_MESSAGE, EmptyStr))
        /\ locals.dialog_id =
              StrOrEmpty(Get(ParamsOrEmpty(locals.data), K_DIALOG_ID, EmptyStr))
        /\ locals.user_id =
              StrOrEmpty(Get(ParamsOrEmpty(locals.data), K_FROM_USER_ID, EmptyStr))
        /\ locals.entity_data1 =
              StrOrEmpty(Get(ParamsOrEmpty(locals.data), K_CHAT_ENTITY_DATA_1, EmptyStr))
        /\ (/\ Truthy(StrOrEmpty(Get(ParamsOrEmpty(locals.data), K_DIALOG_ID, EmptyStr)))
            /\ IsStr(ExtractAccessToken(locals.data))
            /\ Truthy(ExtractAccessToken(locals.data)))
           => /\ Len(calls) = 1
              /\ calls[1].dialog = Get(ParamsOrEmpty(locals.data), K_DIALOG_ID, EmptyStr)
              /\ calls[1].auth = ExtractAccessToken(locals.data)

\* the mapping an install request carries: the JSON body of a POST ({} for
\* an empty body), the query parameters of a GET
InstallData ==
    IF request.method = "GET" THEN request.query
    ELSE IF request.body = <<>> THEN EmptyMap
    ELSE IF BADBYTE \notin Range(request.body) /\ JsonLoads(request.body).ok
    THEN JsonLoads(request.body).v
    ELSE Unbound

\* the non-empty tokens at auth.access_token, at auth (a string) and at
\* access_token
TokensCarried(data) ==
    {v \in {Get(Get(data, K_auth, EmptyMap), K_access_token, JNone),
            Get(data, K_auth, JNone),
            Get(data, K_access_token, JNone)} : IsStr(v) /\ v # EmptyStr}

\* C7 (as claimed): install_app answers 400 {"error": "AUTH_ID missing"}
\* and makes no registration call for every request that carries no
\* non-empty token at auth.access_token, auth (a string) or access_token;
\* for a request that carries one at any of the three, it does not answer
\* with that 400 and makes the registration call with that token.  Stated
\* for requests that carry a mapping.
C7_TokenLocations ==
    (InstallDone /\ IsDict(InstallData)) =>
        /\ TokensCarried(InstallData) = {} =>
              (response = AuthMissingResponse /\ calls = <<>>)
        /\ TokensCarried(InstallData) # {} =>
              /\ response # AuthMissingResponse
              /\ Len(calls) = 1
              /\ calls[1].auth \in TokensCarried(InstallData)

\* C8 (as claimed): a registration failure is never answered as success.
\* install_app answers an upstream non-200 status s with status s and
\* {"error": "Bot registration failed"}, a call that does not complete with
\* 500 and an error body, and only an upstream 200 with 200 and the upstream
\* body; register_bot does not answer an upstream non-200 with HTTP 200
\* either (stated for the upstream error statuses, 400 and above).
C8_FailureSurfaced ==
    /\ (InstallDone /\ calls # <<>>) =>
          /\ (upstream.kind = "status" /\ upstream.status # 200) =>
                response = [status |-> upstream.status,
                            body |-> "error_bot_registration_failed"]
          /\ upstream.kind # "status" =>
                (response.status = 500 /\ response.body # "upstream_text")
          /\ response.status = 200 =>
                (upstream = UpStatus(200) /\ response.body = "upstream_text")
    /\ (RegisterDone /\ calls # <<>>) =>
          /\ (upstream.kind = "status" /\ upstream.status >= 400) =>
                response.status # 200
          /\ upstream.kind # "status" => response.status = 500

\* the first n characters of s, all of s when it is shorter
FirstChars(s, n) == [i \in 1..(IF Len(s) <= n THEN Len(s) ELSE n) |-> s[i]]

\* C9: the text of the message sent is the acknowledgement phrase, then the
\* first 100 characters of the event's message (all of it when shorter),
\* then, only when there are links, one bulleted line per link in the same
\* order with duplicates kept, then, only when there is an entity id, one
\* line with that id; what is sent is DIALOG_ID and MESSAGE, with the token
\* in the URL query.
C9_TruncatedAck ==
    (WebhookDone /\ calls # <<>>) =>
        /\ calls[1].api = "imbot.message.add"
        /\ calls[1].auth = locals.access_token
        /\ calls[1].dialog = locals.dialog_id
        /\ calls[1].text =
              T_Received \o T_Original \o FirstChars(locals.message.s, 100)
              \o (IF Len(locals.found_links) = 0 THEN <<>>
                  ELSE T_FoundHead \o ToDigits(Len(locals.found_links)) \o T_FoundTail
                       \o Cat([i \in 1..Len(locals.found_links) |->
                                 T_Bullet \o locals.found_links[i] \o <<NL>>]))
              \o (IF locals.deal_id \in {JNone, EmptyStr} THEN <<>>
                  ELSE T_Deal \o locals.deal_id.s)

\* a message longer than 100 characters, with a link and an entity id, was
\* delivered
C9_Witness ==
    /\ WebhookDone
    /\ Len(calls) = 1
    /\ Len(locals.message.s) > 100
    /\ locals.found_links # <<>>
    /\ locals.deal_id = JStr(<<"5", "5">>)

RECURSIVE InOrder(_)
\* the numbers of S in ascending order
InOrder(S) ==
    IF S = {} THEN <<>>
    ELSE <<CHOOSE x \in S : \A y \in S : x <= y>>
         \o InOrder(S \ {CHOOSE x \in S : \A y \in S : x <= y})

\* the positions of text where the literal prefix http:// or https:// starts
PrefixStarts(text) ==
    {j \in 1..Len(text) :
        \E p \in {P_http, P_https} :
            j + Len(p) - 1 <= Len(text) /\ SubSeq(text, j, j + Len(p) - 1) = p}

\* the positions where the prefix starts and a further non-whitespace
\* character follows it
PrefixStartsWithMore(text) ==
    {j \in 1..Len(text) :
        \E p \in {P_http, P_https} :
            /\ j + Len(p) <= Len(text)
            /\ SubSeq(text, j, j + Len(p) - 1) = p
            /\ text[j + Len(p)] \notin Whitespace}

\* the end (exclusive) of the maximal run of non-whitespace from j on
RunStop(text, j) ==
    CHOOSE e \in j..(Len(text) + 1) :
        /\ e = Len(text) + 1 \/ text[e] \in Whitespace
        /\ \A k \in j..(e - 1) : text[k] \notin Whitespace

\* left to right without overlap: the starts that no earlier start's run
\* reaches
RunStarts(text, starts) ==
    {j \in starts :
        ~\E k \in starts : k < j /\ \A m \in k..j : text[m] \notin Whitespace}

\* the runs that begin at the given starts, in order of appearance
RunsFrom(text, order) ==
    [i \in 1..Len(order) |-> SubSeq(text, order[i], RunStop(text, order[i]) - 1)]

\* C10 (as claimed): the links found are exactly the maximal runs of
\* non-whitespace characters that start with the prefix http:// or https://,
\* left to right without overlap, in order of appearance, duplicates kept.
C10_LinksAsClaimed ==
    (WebhookDone /\ IsStr(locals.message)) =>
        locals.found_links =
            RunsFrom(locals.message.s,
                     InOrder(RunStarts(locals.message.s, PrefixStarts(locals.message.s))))

\* C10 (amended): the links found are exactly the maximal runs of
\* non-whitespace characters that start with the prefix http:// or https://
\* and hold at least one further non-whitespace character after it, left to
\* right without overlap, in order of appearance, duplicates kept; the
\* empty sequence when there is no such run; "see https://a.com/x and
\* http://b.com" gives ["https://a.com/x", "http://b.com"] and "no links
\* here" gives [].
C10_LinksFound ==
    (WebhookDone /\ IsStr(locals.message)) =>
        /\ locals.found_links =
              RunsFrom(locals.message.s,
                       InOrder(RunStarts(locals.message.s,
                                         PrefixStartsWithMore(locals.message.s))))
        /\ locals.message.s = M_See =>
              locals.found_links =
                  << <<"h", "t", "t", "p", "s", ":", "/", "/", "a", ".", "c", "o", "m",
                       "/", "x">>,
                     <<"h", "t", "t", "p", ":", "/", "/", "b", ".", "c", "o", "m">> >>
        /\ locals.message.s = M_NoLinks => locals.found_links = <<>>

\* a bare prefix, then whitespace, then a link
C10_Witness ==
    /\ WebhookDone
    /\ locals.message = JStr(P_http \o <<SP>> \o L_b)
    /\ locals.found_links = <<L_b>>

\* the elements of a BOT sequence that are mappings, by position
MappingPositions(bots) == {i \in 1..Len(bots) : IsDict(bots[i][2])}

\* the access_token of the first element that is a mapping, when it is
\* present and non-empty; the empty string otherwise
TokenOfFirstMapping(bots) ==
    IF MappingPositions(bots) = {} THEN EmptyStr
    ELSE IF Truthy(Get(bots[CHOOSE i \in MappingPositions(bots) :
                               \A k \in MappingPositions(bots) : i <= k][2],
                       K_access_token, EmptyStr))
    THEN Get(bots[CHOOSE i \in MappingPositions(bots) :
                     \A k \in MappingPositions(bots) : i <= k][2],
             K_access_token, EmptyStr)
    ELSE EmptyStr

\* C11 (as claimed): when BOT is a sequence, the bot metadata is its first
\* element that is a mapping and the extracted access_token is that
\* element's access_token when present and non-empty, else the empty
\* string; later elements are never consulted, so for
\* BOT = [{}, {"access_token": "t"}] the access_token is empty and no
\* delivery is attempted.  Stated for events whose handling ran to the end
\* of the try block.
C11_FirstMappingOnly ==
    (/\ WebhookDone
     /\ locals.exit = "line151"
     /\ IsList(Get(locals.data, K_BOT, EmptyList)))
    => /\ locals.access_token = TokenOfFirstMapping(Get(locals.data, K_BOT, EmptyList).kv)
       /\ TokenOfFirstMapping(Get(locals.data, K_BOT, EmptyList).kv) = EmptyStr
             => calls = <<>>

====
